---- MODULE Spec2Model ----
(***************************************************************************)
(* Model of escape0707/extract-rename-subtitle: the episode indexer, the   *)
(* subtitle extraction planner/runner (SubtitleExtractor.py and the older  *)
(* extract_subtitles.py) and the subtitle rename planner/runner            *)
(* (rename_subtitles.py and renamer.py).                                   *)
(*                                                                         *)
(* File names, tags and suffixes are sequences of one-character strings,   *)
(* so that pathlib's stem/suffix/suffixes, the regular expression search   *)
(* and the sort order are computed character by character.                 *)
(***************************************************************************)
EXTENDS Integers, Sequences, FiniteSets, TLC

\* ------------------------------------------------------------------------
\* Bounds of the model.
\* ------------------------------------------------------------------------
\* Largest number of video files a directory listing holds.
MaxVideos == 2
\* Largest number of subtitle files a directory holds.
MaxSubs == 2

\* ------------------------------------------------------------------------
\* Characters and strings.
\* ------------------------------------------------------------------------
\* Code points of the characters used in names (Python compares str by
\* code point).
Ord ==
    (" " :> 32) @@ ("*" :> 42) @@ ("-" :> 45) @@ ("." :> 46) @@
    ("0" :> 48) @@ ("1" :> 49) @@ ("2" :> 50) @@ ("3" :> 51) @@
    ("4" :> 52) @@ ("5" :> 53) @@ ("6" :> 54) @@ ("7" :> 55) @@
    ("8" :> 56) @@ ("9" :> 57) @@ ("F" :> 70) @@ ("N" :> 78) @@
    ("Y" :> 89) @@ ("a" :> 97) @@ ("b" :> 98) @@ ("c" :> 99) @@
    ("d" :> 100) @@ ("e" :> 101) @@ ("f" :> 102) @@ ("g" :> 103) @@
    ("h" :> 104) @@ ("i" :> 105) @@ ("j" :> 106) @@ ("k" :> 107) @@
    ("l" :> 108) @@ ("m" :> 109) @@ ("n" :> 110) @@ ("o" :> 111) @@
    ("p" :> 112) @@ ("q" :> 113) @@ ("r" :> 114) @@ ("s" :> 115) @@
    ("t" :> 116) @@ ("u" :> 117) @@ ("v" :> 118) @@ ("w" :> 119) @@
    ("x" :> 120) @@ ("y" :> 121) @@ ("z" :> 122)

IsSpace(c) == c = " "
\* \d of the episode patterns
IsDigit(c) == c \in {"0", "1", "2", "3", "4", "5", "6", "7", "8", "9"}

\* str.lower() of one character.
LowerChar(c) == IF c = "Y" THEN "y" ELSE IF c = "N" THEN "n"
                ELSE IF c = "F" THEN "f" ELSE c
Lower(s) == [i \in 1..Len(s) |-> LowerChar(s[i])]

\* s < t for two strings (tuple comparison of code points).
RECURSIVE StrLess(_, _)
StrLess(s, t) ==
    IF t = <<>> THEN FALSE
    ELSE IF s = <<>> THEN TRUE
    ELSE IF Ord[Head(s)] < Ord[Head(t)] THEN TRUE
    ELSE IF Ord[Head(s)] > Ord[Head(t)] THEN FALSE
    ELSE StrLess(Tail(s), Tail(t))

\* "".join(parts)
RECURSIVE Join(_)
Join(parts) == IF parts = <<>> THEN <<>> ELSE Head(parts) \o Join(Tail(parts))

EndsWith(s, t) ==
    /\ Len(t) <= Len(s)
    /\ SubSeq(s, Len(s) - Len(t) + 1, Len(s)) = t

\* Positions of "." in a name.
DotPositions(name) == {i \in 1..Len(name) : name[i] = "."}
SetMax(S) == CHOOSE x \in S : \A y \in S : y <= x
SetMin(S) == CHOOSE x \in S : \A y \in S : x <= y

\* ------------------------------------------------------------------------
\* pathlib.PurePath (Python 3.11) on the final path component.  All files
\* of a run live in one directory, so a path is modelled by its name.
\* ------------------------------------------------------------------------
\* name.rfind("."), 1-based, 0 when there is none.
RFindDot(name) == IF DotPositions(name) = {} THEN 0 ELSE SetMax(DotPositions(name))

\* PurePath.suffix: the last dotted part, unless the dot is first or last.
PathSuffix(name) ==
    LET i == RFindDot(name)
    IN IF 1 < i /\ i < Len(name) THEN SubSeq(name, i, Len(name)) ELSE <<>>

\* PurePath.stem
PathStem(name) ==
    LET i == RFindDot(name)
    IN IF 1 < i /\ i < Len(name) THEN SubSeq(name, 1, i - 1) ELSE name

\* name.lstrip(".")
RECURSIVE LStripDots(_)
LStripDots(name) ==
    IF name # <<>> /\ Head(name) = "." THEN LStripDots(Tail(name)) ELSE name

\* name.split(".")
RECURSIVE SplitDots(_)
SplitDots(name) ==
    IF DotPositions(name) = {} THEN <<name>>
    ELSE LET i == SetMin(DotPositions(name))
         IN <<SubSeq(name, 1, i - 1)>> \o SplitDots(SubSeq(name, i + 1, Len(name)))

\* PurePath.suffixes
PathSuffixes(name) ==
    IF name # <<>> /\ name[Len(name)] = "." THEN <<>>
    ELSE LET parts == Tail(SplitDots(LStripDots(name)))
         IN [i \in 1..Len(parts) |-> <<".">> \o parts[i]]

\* PurePath.with_suffix(suffix) for a suffix that starts with "." .
PathWithSuffix(name, suffix) == PathStem(name) \o suffix

\* ------------------------------------------------------------------------
\* The episode patterns and re.Pattern.search.
\* ------------------------------------------------------------------------
\* SIMPLE_EP_PATTERN = r"\s(\d{2})\s"
SIMPLE_EP_PATTERN == "simple"
\* The pattern of the default configurations, r".*\s(\d{2})\s.*"
CONFIG_EP_PATTERN == "greedy"
Patterns == {SIMPLE_EP_PATTERN, CONFIG_EP_PATTERN}

\* Start positions of \s\d\d\s in s.
EpPositions(s) ==
    {i \in 1..(Len(s) - 3) :
        /\ IsSpace(s[i]) /\ IsDigit(s[i + 1])
        /\ IsDigit(s[i + 2]) /\ IsSpace(s[i + 3])}

\* pattern.search(s): no match, or the match with its group 1.  The simple
\* pattern matches at the leftmost position; the leading greedy ".*" of the
\* configuration pattern backtracks from the end, so its group is the
\* rightmost occurrence.
PatternSearch(pattern, s) ==
    IF EpPositions(s) = {} THEN [matched |-> FALSE, group1 |-> <<>>]
    ELSE LET i == IF pattern = SIMPLE_EP_PATTERN
                  THEN SetMin(EpPositions(s)) ELSE SetMax(EpPositions(s))
         IN [matched |-> TRUE, group1 |-> SubSeq(s, i + 1, i + 2)]

\* ------------------------------------------------------------------------
\* subtitle_utils.py: the episode indexer.
\* ------------------------------------------------------------------------
\* Path.glob for a pattern "*<literal>": the names that end with the literal.
GlobMatch(glob, name) ==
    /\ glob # <<>> /\ Head(glob) = "*"
    /\ EndsWith(name, Tail(glob))

\* sorted(paths): insertion of the least remaining name first.
RECURSIVE SortedNames(_)
SortedNames(S) ==
    IF S = {} THEN <<>>
    ELSE LET least == CHOOSE x \in S : \A y \in S : y = x \/ StrLess(x, y)
         IN <<least>> \o SortedNames(S \ {least})

get_paths_with_glob(glob, directory) ==
    SortedNames({name \in directory : GlobMatch(glob, name)})

\* extract_ep_info with the first path of an identifier kept (as a loop that
\* skips identifiers already present would do).
RECURSIVE extract_ep_info_first_wins(_, _)
extract_ep_info_first_wins(videos, video_ep_pattern) ==
    IF videos = <<>> THEN <<>>
    ELSE LET n == Len(videos)
             rest == extract_ep_info_first_wins(SubSeq(videos, 1, n - 1),
                                                video_ep_pattern)
             match == PatternSearch(video_ep_pattern, PathStem(videos[n]))
         IN IF match.matched
            THEN rest @@ (match.group1 :> videos[n])
            ELSE rest

\* The dict comprehension of extract_ep_info: a later video overwrites the
\* entry of an earlier one with the same group 1.
RECURSIVE extract_ep_info(_, _)
extract_ep_info(videos, video_ep_pattern) ==
    IF videos = <<>> THEN <<>>
    ELSE LET n == Len(videos)
             rest == extract_ep_info(SubSeq(videos, 1, n - 1), video_ep_pattern)
             match == PatternSearch(video_ep_pattern, PathStem(videos[n]))
         IN IF match.matched
            THEN (match.group1 :> videos[n]) @@ rest
            ELSE rest

get_ep_to_video_map(video_glob, video_ep_pattern, video_dir) ==
    extract_ep_info(get_paths_with_glob(video_glob, video_dir), video_ep_pattern)

\* dict.get(key) is truthy: the key is present (a Path is always truthy).
HasKey(map, key) == key \in DOMAIN map

\* ------------------------------------------------------------------------
\* State.
\* ------------------------------------------------------------------------
VARIABLES
    variant,        \* which implementation runs
    pc,             \* position of the run
    err,            \* the exception that ended the run, "none" otherwise
    directory,      \* names of the files in the working directory
    printed,        \* lines printed to the terminal
    user_input,     \* the last answer typed at a confirmation prompt
    \* -- rename run
    video_ep_pattern,           \* configs["video_ep_pattern"]
    subtitle_ep_pattern,        \* configs["subtitle_ep_pattern"]
    glob_to_subtitle_tag_map,   \* configs["glob_to_subtitle_tag_map"], in order
    sub_ep_pattern,             \* the sub_ep_pattern argument of rename_subtitles
    ep_to_video_map,            \* episode index of the videos
    sub_glob_tag_filepaths,     \* SubtitleRenamer.sub_glob_tag_filepaths
    gi,                         \* 1-based position in the (glob, tag) pairs
    sub_filepaths,              \* the listing of the glob being handled
    proposed_changes,           \* the rename plan of the glob being handled
    ri,                         \* 1-based position in proposed_changes
    renamed,                    \* the Path.rename calls made so far
    \* -- extraction run
    origin_videos,              \* sorted listing of the origin videos
    sub_stream_id_to_tag_map,   \* the configured track-to-tag map (or None)
    sub_lang_by_track_collection, \* extract_subtitles' parameter, which it rebinds
    ep_to_target_video_map,     \* episode index of the target videos (or None)
    origin_video_ep_pattern,
    vi,                         \* 1-based position in origin_videos
    probed,                     \* ffprobe's answer for each video planned so far
    collected,                  \* the commands generated so far
    pending_subtitle_extraction,\* the plan, once the name is bound
    ran,                        \* the commands handed to subprocess.run so far
    last_status,                \* exit status of the last subtitle command run
    extraction_configs,         \* content of the extraction configuration file
    font_ran,                   \* the font commands handed to subprocess.run
    calls                       \* the extraction methods called so far

commonVars == <<variant, pc, err, directory, printed, user_input>>
renameVars == <<video_ep_pattern, subtitle_ep_pattern, glob_to_subtitle_tag_map,
                sub_ep_pattern, ep_to_video_map, sub_glob_tag_filepaths, gi,
                sub_filepaths, proposed_changes, ri, renamed>>
extractVars == <<origin_videos, sub_stream_id_to_tag_map,
                 sub_lang_by_track_collection, ep_to_target_video_map,
                 origin_video_ep_pattern, vi, probed, collected,
                 pending_subtitle_extraction, ran, last_status,
                 extraction_configs, font_ran, calls>>
vars == <<commonVars, renameVars, extractVars>>

\* ------------------------------------------------------------------------
\* Inputs.
\* ------------------------------------------------------------------------
\* Video files a directory may hold: two with episode "01", one whose stem
\* holds two episode-like tokens, one without any.
VideoNames == {
    <<"a", " ", "0", "1", " ", ".", "m", "k", "v">>,
    <<"b", " ", "0", "1", " ", ".", "m", "k", "v">>,
    <<"a", " ", "0", "1", " ", "0", "2", " ", ".", "m", "k", "v">>,
    <<"a", ".", "m", "k", "v">> }

\* Subtitle files a directory may hold.
SubNames == {
    <<"s", " ", "0", "1", " ", ".", "a", "s", "s">>,
    <<"s", " ", "0", "2", " ", ".", "e", "n", ".", "s", "r", "t">>,
    <<"s", " ", "0", "1", " ", "0", "2", " ", ".", "a", "s", "s">>,
    <<"s", ".", "a", "s", "s">> }

GlobMkv == <<"*", ".", "m", "k", "v">>
GlobAss == <<"*", ".", "a", "s", "s">>
GlobSrt == <<"*", ".", "s", "r", "t">>
TagNone == <<>>
TagEn == <<"e", "n">>

\* configs["glob_to_subtitle_tag_map"]: the default of DEFAULT_RENAME_CONFIG
\* and two maps with a tag.
GlobTagMaps == {
    << <<GlobAss, TagNone>>, <<GlobSrt, TagNone>> >>,
    << <<GlobSrt, TagEn>>, <<GlobAss, TagEn>> >>,
    << <<GlobAss, TagEn>> >> }

\* What the user may type at a prompt.
Answers == { <<>>, <<"Y">>, <<"n">>, <<"y", "e", "s">> }

SubsetsUpTo(S, n) == {T \in SUBSET S : Cardinality(T) <= n}

\* The configuration files, by name.
RENAME_CONFIG_FILENAME ==
    <<"s", "u", "b", "-", "r", "e", "n", "a", "m", "e", "-", "c", "o", "n", "f", "i", "g", ".", "j", "s", "o", "n">>
EXTRACTION_CONFIG_FILENAME ==
    <<"s", "u", "b", "-", "e", "x", "t", "r", "a", "c", "t", "i", "o", "n", "-", "c", "o", "n", "f", "i", "g", ".", "j", "s", "o", "n">>

\* build_configs of rename_subtitles.py and the opening of SubtitleRenamer.new
\* and SubtitleExtractor.new: with the configuration file in the directory
\* it is loaded; without it two lines are printed, the template is written
\* under that name and SystemExit is raised.
build_configs(config_filename, files) ==
    IF config_filename \in files
    THEN [raised |-> "none", printed |-> <<>>, directory |-> files]
    ELSE [raised |-> "SystemExit",
          printed |-> << [line |-> "no_metadata_file"],
                         [line |-> "template_created"] >>,
          directory |-> files \cup {config_filename}]

\* Values of the variables a run does not use.
RenameIdle ==
    /\ video_ep_pattern = SIMPLE_EP_PATTERN
    /\ subtitle_ep_pattern = SIMPLE_EP_PATTERN
    /\ glob_to_subtitle_tag_map = <<>>
    /\ sub_ep_pattern = SIMPLE_EP_PATTERN
    /\ ep_to_video_map = <<>>
    /\ sub_glob_tag_filepaths = <<>>
    /\ gi = 1
    /\ sub_filepaths = <<>>
    /\ proposed_changes = <<>>
    /\ ri = 1
    /\ renamed = <<>>

ExtractIdle ==
    /\ origin_videos = <<>>
    /\ sub_stream_id_to_tag_map = [is_none |-> TRUE, items |-> <<>>]
    /\ sub_lang_by_track_collection = [is_none |-> TRUE, items |-> <<>>]
    /\ ep_to_target_video_map = [is_none |-> TRUE, map |-> <<>>]
    /\ origin_video_ep_pattern = SIMPLE_EP_PATTERN
    /\ vi = 1
    /\ probed = <<>>
    /\ collected = <<>>
    /\ pending_subtitle_extraction = <<>>
    /\ ran = <<>>
    /\ last_status = 0
    /\ extraction_configs = <<>>
    /\ font_ran = <<>>
    /\ calls = <<>>

\* ------------------------------------------------------------------------
\* subtitle_utils.prompt_for_user_confirmation
\* ------------------------------------------------------------------------
\* prompt_for_user_confirmation accepting every answer that starts with "y"
\* (startswith in place of the membership test).
prompt_for_user_confirmation_startswith(input) ==
    Lower(input) = <<>> \/ Head(Lower(input)) = "y"

prompt_for_user_confirmation(input) == Lower(input) \in { <<>>, <<"y">> }

\* ------------------------------------------------------------------------
\* The rename run: rename_subtitles.py (main + rename_subtitles) and
\* renamer.py (SubtitleRenamer).
\* ------------------------------------------------------------------------
\* sub_new_name with only the last extension kept whatever the tag.
sub_new_name_last_suffix(video, sub_tag, sub_filepath) ==
    PathStem(video) \o
        (IF sub_tag # <<>>
         THEN <<".">> \o sub_tag \o PathSuffix(sub_filepath)
         ELSE PathSuffix(sub_filepath))

\* The new name of a matched subtitle.
sub_new_name(video, sub_tag, sub_filepath) ==
    PathStem(video) \o
        (IF sub_tag # <<>>
         THEN <<".">> \o sub_tag \o PathSuffix(sub_filepath)
         ELSE Join(PathSuffixes(sub_filepath)))

\* build_proposed_changes with extraction's fallback: a subtitle without a
\* video is kept in the plan under its own stem.
RECURSIVE build_proposed_changes_fallback(_, _, _, _)
build_proposed_changes_fallback(filepaths, pattern, index, sub_tag) ==
    IF filepaths = <<>> THEN <<>>
    ELSE LET sub_filepath == Head(filepaths)
             match == PatternSearch(pattern, PathStem(sub_filepath))
             video == IF match.matched /\ HasKey(index, match.group1)
                      THEN index[match.group1] ELSE sub_filepath
         IN << <<sub_filepath, sub_new_name(video, sub_tag, sub_filepath)>> >>
            \o build_proposed_changes_fallback(Tail(filepaths), pattern, index,
                                               sub_tag)

\* The list comprehension that builds proposed_changes.
RECURSIVE build_proposed_changes(_, _, _, _)
build_proposed_changes(filepaths, pattern, index, sub_tag) ==
    IF filepaths = <<>> THEN <<>>
    ELSE LET sub_filepath == Head(filepaths)
             match == PatternSearch(pattern, PathStem(sub_filepath))
             rest == build_proposed_changes(Tail(filepaths), pattern, index, sub_tag)
         IN IF match.matched /\ HasKey(index, match.group1)
            THEN << <<sub_filepath,
                      sub_new_name(index[match.group1], sub_tag, sub_filepath)>> >>
                 \o rest
            ELSE rest

RenameInit ==
    /\ variant \in {"rename_subtitles", "renamer", "SubtitleRenamer_new"}
    /\ pc = "start"
    /\ err = "none"
    \* The configuration file is in the directory or not; a SubtitleRenamer
    \* constructed from its fields reads none.
    /\ \E V \in SubsetsUpTo(VideoNames, MaxVideos), S \in SubsetsUpTo(SubNames, MaxSubs),
          C \in (IF variant = "renamer" THEN {{}}
                 ELSE {{}, {RENAME_CONFIG_FILENAME}}) :
           directory = V \cup S \cup C
    /\ printed = <<>>
    /\ user_input = <<>>
    \* The content of the configuration; without the file, what the template
    \* of DEFAULT_RENAME_CONFIG holds.
    /\ IF variant # "renamer" /\ RENAME_CONFIG_FILENAME \notin directory
       THEN /\ video_ep_pattern = CONFIG_EP_PATTERN
            /\ subtitle_ep_pattern = CONFIG_EP_PATTERN
            /\ glob_to_subtitle_tag_map = << <<GlobAss, TagNone>>, <<GlobSrt, TagNone>> >>
       ELSE /\ video_ep_pattern \in Patterns
            /\ subtitle_ep_pattern \in Patterns
            /\ glob_to_subtitle_tag_map \in GlobTagMaps
    \* main passes the configured pattern; a caller of
    \* SubtitleRenamer.rename_subtitles passes any pattern, or none and gets
    \* the default SIMPLE_EP_PATTERN.
    /\ sub_ep_pattern \in (IF variant = "renamer"
                           THEN Patterns ELSE {subtitle_ep_pattern})
    /\ ep_to_video_map = <<>>
    /\ sub_glob_tag_filepaths = <<>>
    /\ gi = 1
    /\ sub_filepaths = <<>>
    /\ proposed_changes = <<>>
    /\ ri = 1
    /\ renamed = <<>>
    /\ ExtractIdle

\* The generator of SubtitleRenamer.new, `for glob, tag in configs[
\* "glob_to_subtitle_tag_map"]`: it iterates the keys of the dict and unpacks
\* each key, a string, into two names.  A key that is not two characters
\* long raises ValueError; a key of two characters gives a one-character
\* glob and a one-character tag.
unpack_glob_tag(glob_tag_map) ==
    IF \E i \in 1..Len(glob_tag_map) : Len(glob_tag_map[i][1]) # 2
    THEN [raised |-> "ValueError", value |-> <<>>]
    ELSE [raised |-> "none",
          value |-> [i \in 1..Len(glob_tag_map) |->
                        << <<glob_tag_map[i][1][1]>>, <<glob_tag_map[i][1][2]>> >>]]

\* main loads the configuration, builds the episode index of the videos
\* and prints it.  "SubtitleRenamer_new" is the construction by
\* SubtitleRenamer.new, which loads the configuration, builds the index and
\* unpacks the keys of the map.  The variant "renamer" is a SubtitleRenamer
\* constructed from its fields, holding the index and the listing of every
\* (glob, tag) pair, listed now; its caller may call print_ep_to_video_map
\* before rename_subtitles or not.
build_index ==
    /\ pc = "start"
    /\ variant \in {"rename_subtitles", "renamer", "SubtitleRenamer_new"}
    /\ LET configs == IF variant = "renamer"
                      THEN [raised |-> "none", printed |-> <<>>,
                            directory |-> directory]
                      ELSE build_configs(RENAME_CONFIG_FILENAME, directory)
           pairs == unpack_glob_tag(glob_to_subtitle_tag_map)
           index == get_ep_to_video_map(GlobMkv, video_ep_pattern, directory)
       IN /\ directory' = configs.directory
          /\ IF configs.raised # "none"
             THEN /\ err' = configs.raised
                  /\ pc' = "error"
                  /\ printed' = printed \o configs.printed
                  /\ UNCHANGED <<ep_to_video_map, sub_glob_tag_filepaths,
                                 glob_to_subtitle_tag_map>>
             ELSE /\ ep_to_video_map' = index
                  /\ IF variant = "SubtitleRenamer_new"
                     THEN IF pairs.raised # "none"
                          THEN /\ err' = pairs.raised
                               /\ pc' = "error"
                               /\ UNCHANGED <<sub_glob_tag_filepaths, printed,
                                              glob_to_subtitle_tag_map>>
                          ELSE /\ glob_to_subtitle_tag_map' = pairs.value
                               /\ sub_glob_tag_filepaths' =
                                      [i \in 1..Len(pairs.value) |->
                                          get_paths_with_glob(pairs.value[i][1],
                                                              directory)]
                               /\ pc' = "glob"
                               /\ UNCHANGED <<err, printed>>
                     ELSE /\ sub_glob_tag_filepaths' =
                                 IF variant = "renamer"
                                 THEN [i \in 1..Len(glob_to_subtitle_tag_map) |->
                                          get_paths_with_glob(
                                              glob_to_subtitle_tag_map[i][1],
                                              directory)]
                                 ELSE <<>>
                          /\ \E print_called \in
                                 (IF variant = "renamer" THEN BOOLEAN ELSE {TRUE}) :
                                 printed' = IF print_called
                                            THEN printed \o
                                                 << [line |-> "ep_to_video_map"] >>
                                            ELSE printed
                          /\ pc' = "glob"
                          /\ UNCHANGED <<err, glob_to_subtitle_tag_map>>
    /\ UNCHANGED <<variant, user_input, video_ep_pattern,
                   subtitle_ep_pattern, sub_ep_pattern,
                   gi, sub_filepaths, proposed_changes, ri, renamed>>
    /\ UNCHANGED extractVars

\* One (glob, tag) pair: list, plan and print, up to the prompt.
propose_changes ==
    /\ pc = "glob"
    /\ gi <= Len(glob_to_subtitle_tag_map)
    /\ LET sub_glob == glob_to_subtitle_tag_map[gi][1]
           sub_tag == glob_to_subtitle_tag_map[gi][2]
           listing == IF variant # "rename_subtitles"
                      THEN sub_glob_tag_filepaths[gi]
                      ELSE get_paths_with_glob(sub_glob, directory)
           changes == build_proposed_changes(listing, sub_ep_pattern,
                                             ep_to_video_map, sub_tag)
       IN /\ sub_filepaths' = listing
          /\ proposed_changes' = changes
          /\ IF changes = <<>>
             THEN \* only the renamer's message names the glob
                  /\ printed' = printed \o
                        << [line |-> "no_match",
                            glob |-> IF variant # "rename_subtitles"
                                     THEN sub_glob ELSE <<>>] >>
                  /\ gi' = gi + 1
                  /\ pc' = "glob"
             ELSE /\ printed' = printed \o << [line |-> "header"] >> \o
                        [i \in 1..Len(changes) |->
                            [line |-> "change", name |-> changes[i][1],
                             new_name |-> changes[i][2]]]
                  /\ gi' = gi
                  /\ pc' = "prompt"
    /\ ri' = 1
    /\ UNCHANGED <<variant, err, directory, user_input, video_ep_pattern,
                   subtitle_ep_pattern, glob_to_subtitle_tag_map, sub_ep_pattern,
                   ep_to_video_map, sub_glob_tag_filepaths, renamed>>
    /\ UNCHANGED extractVars

\* answer_rename with a declined batch ending the whole run (a `return`
\* inside the loop over the pairs in place of falling through to the next).
answer_rename_return ==
    /\ pc = "prompt"
    /\ variant \in {"rename_subtitles", "renamer", "SubtitleRenamer_new"}
    /\ \E input \in Answers :
        /\ user_input' = input
        /\ pc' = IF prompt_for_user_confirmation(input) THEN "rename" ELSE "done"
    /\ UNCHANGED <<variant, err, directory, printed, video_ep_pattern,
                   subtitle_ep_pattern, glob_to_subtitle_tag_map, sub_ep_pattern,
                   ep_to_video_map, sub_glob_tag_filepaths, gi, sub_filepaths,
                   proposed_changes, ri, renamed>>
    /\ UNCHANGED extractVars

\* The user answers "Apply renaming?".
answer_rename ==
    /\ pc = "prompt"
    /\ variant \in {"rename_subtitles", "renamer", "SubtitleRenamer_new"}
    /\ \E input \in Answers :
        /\ user_input' = input
        /\ IF prompt_for_user_confirmation(input)
           THEN /\ pc' = "rename"
                /\ gi' = gi
           ELSE /\ pc' = "glob"
                /\ gi' = gi + 1
    /\ ri' = 1
    /\ UNCHANGED <<variant, err, directory, printed, video_ep_pattern,
                   subtitle_ep_pattern, glob_to_subtitle_tag_map, sub_ep_pattern,
                   ep_to_video_map, sub_glob_tag_filepaths, sub_filepaths,
                   proposed_changes, renamed>>
    /\ UNCHANGED extractVars

\* One sub_filepath.rename(sub_filepath.with_name(sub_new_name)).
rename_one ==
    /\ pc = "rename"
    /\ ri <= Len(proposed_changes)
    /\ LET sub_filepath == proposed_changes[ri][1]
           new_name == proposed_changes[ri][2]
       IN IF sub_filepath \in directory
          THEN /\ directory' = (directory \ {sub_filepath}) \cup {new_name}
               /\ renamed' = Append(renamed, <<sub_filepath, new_name>>)
               /\ err' = err
               /\ IF ri = Len(proposed_changes)
                  THEN pc' = "glob" /\ gi' = gi + 1 /\ ri' = 1
                  ELSE pc' = "rename" /\ gi' = gi /\ ri' = ri + 1
          ELSE /\ err' = "FileNotFoundError"
               /\ pc' = "error"
               /\ UNCHANGED <<directory, renamed, gi, ri>>
    /\ UNCHANGED <<variant, printed, user_input, video_ep_pattern,
                   subtitle_ep_pattern, glob_to_subtitle_tag_map, sub_ep_pattern,
                   ep_to_video_map, sub_glob_tag_filepaths, sub_filepaths,
                   proposed_changes>>
    /\ UNCHANGED extractVars

\* The loop over the (glob, tag) pairs is over.
rename_finished ==
    /\ pc = "glob"
    /\ gi > Len(glob_to_subtitle_tag_map)
    /\ pc' = "done"
    /\ UNCHANGED <<variant, err, directory, printed, user_input>>
    /\ UNCHANGED renameVars
    /\ UNCHANGED extractVars

RenameNext ==
    \/ build_index
    \/ propose_changes
    \/ answer_rename
    \/ rename_one
    \/ rename_finished

RenameSpec == RenameInit /\ [][RenameNext]_vars

\* ------------------------------------------------------------------------
\* The extraction run: SubtitleExtractor.py (SubtitleExtractor) and
\* extract_subtitles.py (extract_subtitles).
\* ------------------------------------------------------------------------
TagEng == <<"e", "n", "g">>
TagJpn == <<"j", "p", "n">>
TitleFull == <<"F", "u", "l", "l">>

\* Subtitle streams as ffprobe reports them.
StreamSrt == [codec_name |-> "subrip", tags |-> [language |-> TagEng, title |-> TitleFull]]
StreamAss == [codec_name |-> "ass", tags |-> [language |-> TagJpn, title |-> TitleFull]]
StreamPgs == [codec_name |-> "hdmv_pgs_subtitle",
              tags |-> [language |-> TagEng, title |-> TitleFull]]
StreamAssNoTitle == [codec_name |-> "ass", tags |-> [language |-> TagJpn]]
StreamAssNoLanguage == [codec_name |-> "ass", tags |-> [title |-> TitleFull]]

\* What get_sub_streams_info may return for a video.
StreamInfos == {
    [streams |-> <<>>],
    [streams |-> <<StreamSrt>>],
    [streams |-> <<StreamSrt, StreamAss>>],
    [streams |-> <<StreamSrt, StreamPgs>>],
    [streams |-> <<StreamSrt, StreamAssNoTitle>>],
    [streams |-> <<StreamAssNoLanguage>>] }

\* SUB_CODEC_TO_SUFFIX_MAP = {"subrip": "srt", "ass": "ass"}
SUB_CODEC_TO_SUFFIX_MAP ==
    ("subrip" :> <<"s", "r", "t">>) @@ ("ass" :> <<"a", "s", "s">>)

\* A key of a track-to-tag map: the int n, or the str that JSON makes of it.
IntKey(n) == [type |-> "int", value |-> n]
StrKey(n) == [type |-> "str", value |-> n]

\* The explicit track-to-tag maps given to the constructor or the function,
\* as (track, tag) items in insertion order; is_none stands for a map that
\* was not given.
NoMap == [is_none |-> TRUE, items |-> <<>>]
ExplicitMaps == {
    NoMap,
    [is_none |-> FALSE, items |-> <<>>],
    [is_none |-> FALSE, items |-> << <<IntKey(0), TagEng>>, <<IntKey(1), TagJpn>> >>],
    [is_none |-> FALSE, items |-> << <<IntKey(1), TagJpn>>, <<IntKey(0), TagEng>> >>],
    [is_none |-> FALSE, items |-> << <<IntKey(0), TagEng>> >>] }

\* json.loads of the configuration file: the keys of a JSON object are str.
json_loads_map(map) ==
    [is_none |-> map.is_none,
     items |-> [i \in 1..Len(map.items) |->
                   <<StrKey(map.items[i][1].value), map.items[i][2]>>]]

\* bool(map): a dict that is given and not empty.
Truthy(map) == ~map.is_none /\ map.items # <<>>

\* Target directories and the (index, origin pattern) pairs built from them.
TargetX01 == <<"x", " ", "0", "1", " ", ".", "m", "p", "4">>
GlobMp4 == <<"*", ".", "m", "p", "4">>
NoTarget == [is_none |-> TRUE, map |-> <<>>]
TargetConfigs == {
    <<NoTarget, SIMPLE_EP_PATTERN>>,
    <<[is_none |-> FALSE,
       map |-> get_ep_to_video_map(GlobMp4, SIMPLE_EP_PATTERN, {})],
      SIMPLE_EP_PATTERN>>,
    <<[is_none |-> FALSE,
       map |-> get_ep_to_video_map(GlobMp4, SIMPLE_EP_PATTERN, {TargetX01})],
      SIMPLE_EP_PATTERN>>,
    <<[is_none |-> FALSE,
       map |-> get_ep_to_video_map(GlobMp4, SIMPLE_EP_PATTERN, {TargetX01})],
      CONFIG_EP_PATTERN>> }

\* Exit last_status of the external tool.
ExitStatuses == {0, 1}

\* The result of a call: the exception it raised ("none" if it returned)
\* and its value.
Returned(v) == [raised |-> "none", value |-> v]
Raised(e) == [raised |-> e, value |-> <<>>]

\* get_sub_stream_id_to_tag_map with a missing tag field read as "".
get_sub_stream_id_to_tag_map_lenient(video_sub_info) ==
    LET streams == video_sub_info.streams
        field(t, f) == IF f \in DOMAIN t THEN t[f] ELSE <<>>
    IN Returned([i \in 1..Len(streams) |->
                    <<IntKey(i - 1), field(streams[i].tags, "language") \o <<"-">>
                             \o field(streams[i].tags, "title")>>])

\* get_sub_stream_id_to_tag_map with the language alone as the tag.
get_sub_stream_id_to_tag_map_language(video_sub_info) ==
    LET streams == video_sub_info.streams
    IN IF \E i \in 1..Len(streams) :
               ~({"language", "title"} \subseteq DOMAIN streams[i].tags)
       THEN Raised("KeyError_tags")
       ELSE Returned([i \in 1..Len(streams) |->
                         <<IntKey(i - 1), streams[i].tags.language>>])

\* subtitle_utils.get_sub_stream_id_to_tag_map (tracks indexed within the
\* subtitle streams): dict(enumerate("{language}-{title}")), a KeyError when
\* a stream lacks one of the two tags.
get_sub_stream_id_to_tag_map(video_sub_info) ==
    LET streams == video_sub_info.streams
    IN IF \E i \in 1..Len(streams) :
               ~({"language", "title"} \subseteq DOMAIN streams[i].tags)
       THEN Raised("KeyError_tags")
       ELSE Returned([i \in 1..Len(streams) |->
                         <<IntKey(i - 1), streams[i].tags.language \o <<"-">>
                                  \o streams[i].tags.title>>])

\* extract_subtitles.py imports this function from an older subtitle_utils.
extract_sub_lang_by_track_collection_with_video_sub_info(video_sub_info) ==
    get_sub_stream_id_to_tag_map(video_sub_info)

\* _get_sub_suffix with "srt" for a codec that is not in the table.
get_sub_suffix_default(sub_index, sub_streams_info) ==
    LET streams == sub_streams_info.streams
        n == sub_index.value
    IN IF sub_index.type # "int" THEN Raised("TypeError")
       ELSE IF n >= Len(streams) \/ n < -Len(streams)
       THEN Raised("IndexError")
       ELSE LET stream == streams[IF n >= 0 THEN n + 1
                                  ELSE Len(streams) + n + 1]
            IN IF stream.codec_name \in DOMAIN SUB_CODEC_TO_SUFFIX_MAP
               THEN Returned(SUB_CODEC_TO_SUFFIX_MAP[stream.codec_name])
               ELSE Returned(<<"s", "r", "t">>)

\* SubtitleExtractor._get_sub_suffix / extract_subtitles._get_sub_format:
\* streams[sub_index] (a TypeError for a str index, an IndexError out of
\* range), then the codec table (a KeyError for a codec it does not hold).
get_sub_suffix(sub_index, sub_streams_info) ==
    LET streams == sub_streams_info.streams
        n == sub_index.value
    IN IF sub_index.type # "int" THEN Raised("TypeError")
       ELSE IF n >= Len(streams) \/ n < -Len(streams)
       THEN Raised("IndexError")
       ELSE LET stream == streams[IF n >= 0 THEN n + 1
                                  ELSE Len(streams) + n + 1]
            IN IF stream.codec_name \in DOMAIN SUB_CODEC_TO_SUFFIX_MAP
               THEN Returned(SUB_CODEC_TO_SUFFIX_MAP[stream.codec_name])
               ELSE Raised("KeyError_codec")

\* SubtitleExtractor._get_target_video
SubtitleExtractor_get_target_video(target_map, pattern, origin_video) ==
    LET match == PatternSearch(pattern, PathStem(origin_video))
    IN IF Truthy([is_none |-> target_map.is_none,
                  items |-> IF DOMAIN target_map.map = {} THEN <<>> ELSE <<1>>])
          /\ match.matched
          /\ HasKey(target_map.map, match.group1)
       THEN Returned(target_map.map[match.group1])
       ELSE Returned(origin_video)

\* extract_subtitles._get_target_video: the index is subscripted, a KeyError
\* when the identifier is not one of its keys.
extract_subtitles_get_target_video(target_map, pattern, origin_video) ==
    LET match == PatternSearch(pattern, PathStem(origin_video))
    IN IF ~target_map.is_none /\ DOMAIN target_map.map # {} /\ match.matched
       THEN IF HasKey(target_map.map, match.group1)
            THEN Returned(target_map.map[match.group1])
            ELSE Raised("KeyError_target")
       ELSE Returned(origin_video)

\* The command of one track; base and tag keep the loop's target video and
\* sub_lang beside the three arguments that vary: -i input, -map 0:s:track
\* and the output path.
ExtractionCmd(origin_video, sub_index, sub_lang, suffix, target_video) ==
    [input |-> origin_video,
     track |-> sub_index.value,
     output |-> PathWithSuffix(target_video,
                               <<".">> \o sub_lang \o <<".">> \o suffix),
     base |-> target_video,
     tag |-> sub_lang]

\* The loop over the tag map's items: the commands generated until the
\* first exception, and that exception.  SubtitleExtractor resolves the
\* suffix and then the target video; extract_subtitles the target video
\* and then the suffix.
RECURSIVE generate_cmds(_, _, _, _, _, _)
generate_cmds(impl, items, sub_streams_info, origin_video, target_map, pattern) ==
    IF items = <<>> THEN [raised |-> "none", cmds |-> <<>>]
    ELSE LET sub_index == Head(items)[1]
             sub_lang == Head(items)[2]
             suffix == get_sub_suffix(sub_index, sub_streams_info)
             target == IF impl = "SubtitleExtractor"
                       THEN SubtitleExtractor_get_target_video(target_map, pattern,
                                                               origin_video)
                       ELSE extract_subtitles_get_target_video(target_map, pattern,
                                                               origin_video)
             first == IF impl = "SubtitleExtractor" THEN suffix ELSE target
             second == IF impl = "SubtitleExtractor" THEN target ELSE suffix
         IN IF first.raised # "none" THEN [raised |-> first.raised, cmds |-> <<>>]
            ELSE IF second.raised # "none"
            THEN [raised |-> second.raised, cmds |-> <<>>]
            ELSE LET rest == generate_cmds(impl, Tail(items), sub_streams_info,
                                           origin_video, target_map, pattern)
                 IN [raised |-> rest.raised,
                     cmds |-> <<ExtractionCmd(origin_video, sub_index, sub_lang,
                                              suffix.value, target.value)>>
                              \o rest.cmds]

\* The tag map resolved from the stream metadata alone.
resolve_tag_map_derived(explicit_map, sub_streams_info) ==
    get_sub_stream_id_to_tag_map(sub_streams_info)

\* self.sub_stream_id_to_tag_map or get_sub_stream_id_to_tag_map(info)
resolve_tag_map(explicit_map, sub_streams_info) ==
    IF Truthy(explicit_map) THEN Returned(explicit_map.items)
    ELSE get_sub_stream_id_to_tag_map(sub_streams_info)

\* SubtitleExtractor._generate_extraction_cmds for one video.
generate_extraction_cmds(explicit_map, sub_streams_info, origin_video, target_map, pattern) ==
    LET tag_map == resolve_tag_map(explicit_map, sub_streams_info)
    IN IF tag_map.raised # "none"
       THEN [raised |-> tag_map.raised, cmds |-> <<>>]
       ELSE generate_cmds("SubtitleExtractor", tag_map.value, sub_streams_info,
                          origin_video, target_map, pattern)

\* The plan extended by newly generated commands, except those whose output
\* path the plan already holds.
RECURSIVE extend_plan_dedup(_, _)
extend_plan_dedup(plan, cmds) ==
    IF cmds = <<>> THEN plan
    ELSE IF \E i \in 1..Len(plan) : plan[i].output = Head(cmds).output
    THEN extend_plan_dedup(plan, Tail(cmds))
    ELSE extend_plan_dedup(Append(plan, Head(cmds)), Tail(cmds))

\* itertools.chain.from_iterable / list.append: the plan is extended by the
\* commands in the order they are generated.
extend_plan(plan, cmds) == plan \o cmds

PrintedCmds(cmds) == [i \in 1..Len(cmds) |-> [line |-> "cmd", cmd |-> cmds[i]]]

\* The folder extract_fonts uses when font_dir is None: "fonts" beside the
\* first origin video.
FontDirName == <<"f", "o", "n", "t", "s">>

\* DEFAULT_EXTRACTION_CONFIG as json.loads reads it back from the template.
DEFAULT_EXTRACTION_CONFIG ==
    [sub_stream_id_to_tag_map |->
         json_loads_map([is_none |-> FALSE,
                         items |-> << <<IntKey(0), TagEng>>, <<IntKey(1), TagJpn>> >>]),
     target_video_glob |-> <<>>,
     origin_video_ep_pattern |-> SIMPLE_EP_PATTERN]

\* The contents an extraction configuration file may have: the map absent,
\* empty or given; no target glob, or "*.mp4" with an origin pattern.
ExtractionConfigs ==
    [sub_stream_id_to_tag_map :
         {NoMap,
          [is_none |-> FALSE, items |-> <<>>],
          DEFAULT_EXTRACTION_CONFIG.sub_stream_id_to_tag_map,
          json_loads_map([is_none |-> FALSE, items |-> << <<IntKey(0), TagEng>> >>])},
     target_video_glob : {<<>>},
     origin_video_ep_pattern : {SIMPLE_EP_PATTERN}]
    \cup
    [sub_stream_id_to_tag_map :
         {NoMap,
          [is_none |-> FALSE, items |-> <<>>],
          DEFAULT_EXTRACTION_CONFIG.sub_stream_id_to_tag_map,
          json_loads_map([is_none |-> FALSE, items |-> << <<IntKey(0), TagEng>> >>])},
     target_video_glob : {GlobMp4},
     origin_video_ep_pattern : Patterns]

\* The implementations of extraction: the class SubtitleExtractor, built
\* from its fields or by SubtitleExtractor.new, and the older function.
IsSubtitleExtractor == variant \in {"SubtitleExtractor", "SubtitleExtractor_new"}
IsExtraction == IsSubtitleExtractor \/ variant = "extract_subtitles"

\* A SubtitleExtractor built from its fields and a call of the function
\* extract_subtitles start with their arguments; SubtitleExtractor.new
\* starts with a directory and, when the file is there, a configuration.
ExtractInit ==
    /\ variant \in {"SubtitleExtractor", "SubtitleExtractor_new", "extract_subtitles"}
    /\ err = "none"
    /\ printed = <<>>
    /\ user_input = <<>>
    /\ RenameIdle
    /\ IF variant = "SubtitleExtractor_new"
       THEN /\ pc = "new"
            /\ \E V \in SubsetsUpTo(VideoNames, MaxVideos),
                  T \in {{}, {TargetX01}},
                  C \in {{}, {EXTRACTION_CONFIG_FILENAME}} :
                   directory = V \cup T \cup C
            /\ extraction_configs \in
                   (IF EXTRACTION_CONFIG_FILENAME \in directory
                    THEN ExtractionConfigs ELSE {DEFAULT_EXTRACTION_CONFIG})
            /\ origin_videos = <<>>
            /\ sub_stream_id_to_tag_map = NoMap
            /\ ep_to_target_video_map = NoTarget
            /\ origin_video_ep_pattern = SIMPLE_EP_PATTERN
       ELSE /\ pc = "start"
            /\ extraction_configs = <<>>
            /\ sub_stream_id_to_tag_map \in ExplicitMaps
            /\ \E t \in TargetConfigs :
                   /\ ep_to_target_video_map = t[1]
                   /\ origin_video_ep_pattern = t[2]
            /\ \E V \in SubsetsUpTo(VideoNames, MaxVideos) :
                   /\ origin_videos = get_paths_with_glob(GlobMkv, V)
                   /\ directory =
                          V \cup {ep_to_target_video_map.map[id] :
                                     id \in DOMAIN ep_to_target_video_map.map}
    /\ sub_lang_by_track_collection =
           IF variant = "extract_subtitles" THEN sub_stream_id_to_tag_map ELSE NoMap
    /\ vi = 1
    /\ probed = <<>>
    /\ collected = <<>>
    /\ pending_subtitle_extraction = <<>>
    /\ ran = <<>>
    /\ last_status = 0
    /\ font_ran = <<>>
    /\ calls = <<>>

\* SubtitleExtractor.new: load the configuration (or write the template and
\* exit), list the origin videos, take the map as JSON gave it and, when a
\* target glob is configured, index the target videos.
SubtitleExtractor_new ==
    /\ pc = "new"
    /\ variant = "SubtitleExtractor_new"
    /\ LET configs == build_configs(EXTRACTION_CONFIG_FILENAME, directory)
           target_video_glob == extraction_configs.target_video_glob
       IN /\ directory' = configs.directory
          /\ printed' = printed \o configs.printed
          /\ IF configs.raised # "none"
             THEN /\ err' = configs.raised
                  /\ pc' = "error"
                  /\ UNCHANGED <<origin_videos, sub_stream_id_to_tag_map,
                                 ep_to_target_video_map, origin_video_ep_pattern>>
             ELSE /\ err' = err
                  /\ pc' = "start"
                  /\ origin_videos' = get_paths_with_glob(GlobMkv, directory)
                  /\ sub_stream_id_to_tag_map' =
                         extraction_configs.sub_stream_id_to_tag_map
                  /\ IF target_video_glob = <<>>
                     THEN /\ ep_to_target_video_map' = NoTarget
                          /\ origin_video_ep_pattern' = SIMPLE_EP_PATTERN
                     ELSE /\ ep_to_target_video_map' =
                                 [is_none |-> FALSE,
                                  map |-> get_ep_to_video_map(target_video_glob,
                                                              SIMPLE_EP_PATTERN,
                                                              directory)]
                          /\ origin_video_ep_pattern' =
                                 extraction_configs.origin_video_ep_pattern
    /\ UNCHANGED <<variant, user_input>>
    /\ UNCHANGED renameVars
    /\ UNCHANGED <<sub_lang_by_track_collection, vi, probed, collected,
                   pending_subtitle_extraction, ran, last_status,
                   extraction_configs, font_ran, calls>>

\* A call of the method (or function) begins when no call is in progress
\* and no exception has ended the program; each is called at most once.
Callable(method) ==
    /\ pc \in {"start", "done", "fonts_done"}
    /\ \A i \in 1..Len(calls) : calls[i] # method

\* SubtitleExtractor.extract_subtitles asserts that there are origin videos;
\* extract_subtitles does not.
start_extraction ==
    /\ Callable("extract_subtitles")
    /\ IsExtraction
    /\ calls' = Append(calls, "extract_subtitles")
    /\ IF IsSubtitleExtractor /\ origin_videos = <<>>
       THEN pc' = "error" /\ err' = "AssertionError"
       ELSE pc' = "plan" /\ err' = err
    /\ UNCHANGED <<variant, directory, printed, user_input>>
    /\ UNCHANGED renameVars
    /\ UNCHANGED <<origin_videos, sub_stream_id_to_tag_map,
                   sub_lang_by_track_collection, ep_to_target_video_map,
                   origin_video_ep_pattern, vi, probed, collected,
                   pending_subtitle_extraction, ran, last_status,
                   extraction_configs, font_ran>>

\* SubtitleExtractor: one _generate_extraction_cmds(origin_video), consumed
\* by tuple(chain.from_iterable(...)).  Nothing is bound or printed yet.
plan_video_SubtitleExtractor ==
    /\ pc = "plan"
    /\ IsSubtitleExtractor
    /\ vi <= Len(origin_videos)
    /\ \E sub_streams_info \in StreamInfos :
        LET r == generate_extraction_cmds(sub_stream_id_to_tag_map, sub_streams_info,
                                          origin_videos[vi], ep_to_target_video_map,
                                          origin_video_ep_pattern)
        IN /\ probed' = Append(probed, sub_streams_info)
           /\ collected' = extend_plan(collected, r.cmds)
           /\ IF r.raised # "none"
              THEN pc' = "error" /\ err' = r.raised /\ vi' = vi
              ELSE pc' = "plan" /\ err' = err /\ vi' = vi + 1
    /\ UNCHANGED <<variant, directory, printed, user_input>>
    /\ UNCHANGED <<extraction_configs, font_ran, calls>>
    /\ UNCHANGED renameVars
    /\ UNCHANGED <<origin_videos, sub_stream_id_to_tag_map,
                   sub_lang_by_track_collection, ep_to_target_video_map,
                   origin_video_ep_pattern, pending_subtitle_extraction, ran,
                   last_status>>

\* extract_subtitles: one turn of the loop over origin_video_collection.
\* The tag map is derived only while it is None, each command is printed and
\* appended to pending_subtitle_extraction as it is made.
plan_video_extract_subtitles ==
    /\ pc = "plan"
    /\ variant = "extract_subtitles"
    /\ vi <= Len(origin_videos)
    /\ \E video_sub_info \in StreamInfos :
        LET derived == IF sub_lang_by_track_collection.is_none
                       THEN extract_sub_lang_by_track_collection_with_video_sub_info(
                                video_sub_info)
                       ELSE Returned(sub_lang_by_track_collection.items)
            r == IF derived.raised # "none"
                 THEN [raised |-> derived.raised, cmds |-> <<>>]
                 ELSE generate_cmds("extract_subtitles", derived.value, video_sub_info,
                                    origin_videos[vi], ep_to_target_video_map,
                                    origin_video_ep_pattern)
        IN /\ probed' = Append(probed, video_sub_info)
           /\ sub_lang_by_track_collection' =
                  IF derived.raised # "none" THEN sub_lang_by_track_collection
                  ELSE [is_none |-> FALSE, items |-> derived.value]
           /\ collected' = extend_plan(collected, r.cmds)
           /\ pending_subtitle_extraction' =
                  extend_plan(pending_subtitle_extraction, r.cmds)
           /\ printed' = printed \o PrintedCmds(r.cmds)
           /\ IF r.raised # "none"
              THEN pc' = "error" /\ err' = r.raised /\ vi' = vi
              ELSE pc' = "plan" /\ err' = err /\ vi' = vi + 1
    /\ UNCHANGED <<variant, directory, user_input>>
    /\ UNCHANGED <<extraction_configs, font_ran, calls>>
    /\ UNCHANGED renameVars
    /\ UNCHANGED <<origin_videos, sub_stream_id_to_tag_map, ep_to_target_video_map,
                   origin_video_ep_pattern, ran, last_status>>

\* Every video is planned: SubtitleExtractor binds the tuple and prints the
\* commands; both implementations then prompt.
plan_finished ==
    /\ pc = "plan"
    /\ vi > Len(origin_videos)
    /\ IF IsSubtitleExtractor
       THEN /\ pending_subtitle_extraction' = collected
            /\ printed' = printed \o << [line |-> "header"] >> \o PrintedCmds(collected)
       ELSE UNCHANGED <<pending_subtitle_extraction, printed>>
    /\ pc' = "prompt"
    /\ UNCHANGED <<variant, err, directory, user_input>>
    /\ UNCHANGED <<extraction_configs, font_ran, calls>>
    /\ UNCHANGED renameVars
    /\ UNCHANGED <<origin_videos, sub_stream_id_to_tag_map,
                   sub_lang_by_track_collection, ep_to_target_video_map,
                   origin_video_ep_pattern, vi, probed, collected, ran, last_status>>

\* The user answers "Start subtitle extraction?".
answer_extraction ==
    /\ pc = "prompt"
    /\ IsExtraction
    /\ \E input \in Answers :
        /\ user_input' = input
        /\ pc' = IF prompt_for_user_confirmation(input) THEN "run" ELSE "done"
    /\ UNCHANGED <<variant, err, directory, printed>>
    /\ UNCHANGED renameVars
    /\ UNCHANGED extractVars

\* run_cmd with subprocess.run(cmd, check=True): a non-zero exit status
\* raises and ends the loop.
run_cmd_check ==
    /\ pc = "run"
    /\ Len(ran) < Len(pending_subtitle_extraction)
    /\ \E status \in ExitStatuses :
        /\ ran' = Append(ran, pending_subtitle_extraction[Len(ran) + 1])
        /\ last_status' = status
        /\ IF status # 0
           THEN pc' = "error" /\ err' = "CalledProcessError"
           ELSE pc' = pc /\ err' = err
    /\ UNCHANGED <<variant, directory, printed, user_input>>
    /\ UNCHANGED <<extraction_configs, font_ran, calls>>
    /\ UNCHANGED renameVars
    /\ UNCHANGED <<origin_videos, sub_stream_id_to_tag_map,
                   sub_lang_by_track_collection, ep_to_target_video_map,
                   origin_video_ep_pattern, vi, probed, collected,
                   pending_subtitle_extraction>>

\* One subprocess.run(cmd) of the loop over the plan; the exit status is
\* not looked at.
run_cmd ==
    /\ pc = "run"
    /\ Len(ran) < Len(pending_subtitle_extraction)
    /\ \E status \in ExitStatuses :
        /\ ran' = Append(ran, pending_subtitle_extraction[Len(ran) + 1])
        /\ last_status' = status
    /\ UNCHANGED commonVars
    /\ UNCHANGED <<extraction_configs, font_ran, calls>>
    /\ UNCHANGED renameVars
    /\ UNCHANGED <<origin_videos, sub_stream_id_to_tag_map,
                   sub_lang_by_track_collection, ep_to_target_video_map,
                   origin_video_ep_pattern, vi, probed, collected,
                   pending_subtitle_extraction>>

\* The loop over the plan is over.
run_finished ==
    /\ pc = "run"
    /\ Len(ran) = Len(pending_subtitle_extraction)
    /\ pc' = "done"
    /\ UNCHANGED <<variant, err, directory, printed, user_input>>
    /\ UNCHANGED renameVars
    /\ UNCHANGED extractVars

\* The font command of one video; ffmpeg is run in the font folder.
FontCmd(video, font_dir) == [input |-> video, cwd |-> font_dir]

\* The variables of the extraction run that extract_fonts leaves alone.
fontUnchanged == <<origin_videos, sub_stream_id_to_tag_map,
                   sub_lang_by_track_collection, ep_to_target_video_map,
                   origin_video_ep_pattern, vi, probed, collected,
                   pending_subtitle_extraction, ran, extraction_configs>>

\* extract_fonts up to its prompt.  SubtitleExtractor.extract_fonts asserts
\* that there are origin videos, the function of extract_subtitles.py
\* returns at once without videos; one command per origin video is printed
\* (after a header line in SubtitleExtractor) and the user is asked.
extract_fonts ==
    /\ Callable("extract_fonts")
    /\ IsExtraction
    /\ calls' = Append(calls, "extract_fonts")
    /\ LET pending_font_extraction ==
               [i \in 1..Len(origin_videos) |-> FontCmd(origin_videos[i], FontDirName)]
       IN IF origin_videos = <<>>
          THEN /\ IF IsSubtitleExtractor
                  THEN pc' = "error" /\ err' = "AssertionError"
                  ELSE pc' = "fonts_done" /\ err' = err
               /\ printed' = printed
          ELSE /\ pc' = "font_prompt"
               /\ err' = err
               /\ printed' = printed
                      \o (IF IsSubtitleExtractor
                          THEN << [line |-> "font_header"] >> ELSE <<>>)
                      \o [i \in 1..Len(pending_font_extraction) |->
                             [line |-> "font_cmd",
                              cmd |-> pending_font_extraction[i]]]
    /\ UNCHANGED <<variant, directory, user_input>>
    /\ UNCHANGED renameVars
    /\ UNCHANGED fontUnchanged
    /\ UNCHANGED <<font_ran, last_status>>

\* The answers given to the font prompt.
FontAnswers == { <<"Y">>, <<"n">> }

\* The user answers 'Extract font to folder "fonts"?'; on a confirming
\* answer the folder is made unless it is there.
answer_fonts ==
    /\ pc = "font_prompt"
    /\ \E input \in FontAnswers :
        /\ user_input' = input
        /\ IF prompt_for_user_confirmation(input)
           THEN pc' = "font_run" /\ directory' = directory \cup {FontDirName}
           ELSE pc' = "fonts_done" /\ directory' = directory
    /\ UNCHANGED <<variant, err, printed>>
    /\ UNCHANGED renameVars
    /\ UNCHANGED extractVars

\* One subprocess.run(cmd, cwd=font_dir) of the loop over the font commands;
\* what it returns is dropped.
run_font_cmd ==
    /\ pc = "font_run"
    /\ Len(font_ran) < Len(origin_videos)
    /\ font_ran' = Append(font_ran,
                          FontCmd(origin_videos[Len(font_ran) + 1], FontDirName))
    /\ last_status' = last_status
    /\ UNCHANGED commonVars
    /\ UNCHANGED renameVars
    /\ UNCHANGED fontUnchanged
    /\ UNCHANGED calls

\* The loop over the font commands is over.
fonts_finished ==
    /\ pc = "font_run"
    /\ Len(font_ran) = Len(origin_videos)
    /\ pc' = "fonts_done"
    /\ UNCHANGED <<variant, err, directory, printed, user_input>>
    /\ UNCHANGED renameVars
    /\ UNCHANGED extractVars

\* The steps of extract_subtitles (and of SubtitleExtractor.new before it).
ExtractSubtitlesNext ==
    \/ SubtitleExtractor_new
    \/ start_extraction
    \/ plan_video_SubtitleExtractor
    \/ plan_video_extract_subtitles
    \/ plan_finished
    \/ answer_extraction
    \/ run_cmd
    \/ run_finished

\* The steps of extract_fonts.
ExtractFontsNext ==
    \/ extract_fonts
    \/ answer_fonts
    \/ run_font_cmd
    \/ fonts_finished

ExtractNext == ExtractSubtitlesNext \/ ExtractFontsNext

ExtractSpec == ExtractInit /\ [][ExtractNext]_vars

\* A caller that calls extract_subtitles only.  subprocess.run returns once
\* the external tool exits, and the loop then goes on to the next command.
\* No step of extract_fonts is enabled while the loop runs.
FairExtractSpec ==
    /\ ExtractInit
    /\ [][ExtractSubtitlesNext]_vars
    /\ WF_vars(run_cmd)
    /\ WF_vars(run_finished)

\* ------------------------------------------------------------------------
\* The whole program: a rename run or an extraction run.
\* ------------------------------------------------------------------------
Init == RenameInit \/ ExtractInit
Next == RenameNext \/ ExtractNext
Spec == Init /\ [][Next]_vars

\* ------------------------------------------------------------------------
\* Properties of the rename run and of the episode indexer.
\* ------------------------------------------------------------------------
\* The video files of the directory (renames only create subtitle names).
VideoFiles == {name \in directory : GlobMatch(GlobMkv, name)}
EpMatch(pattern, name) == PatternSearch(pattern, PathStem(name))
MatchingVideos == {v \in VideoFiles : EpMatch(video_ep_pattern, v).matched}

\* C1: the episode index has exactly one entry per identifier captured from
\* a matching stem, nothing for paths that do not match, and an identifier
\* captured from several paths maps to the lexicographically last of them.
C1_IndexLastPathWins ==
    (pc # "start" /\ err # "SystemExit"
       /\ variant \in {"rename_subtitles", "renamer"}) =>
        /\ DOMAIN ep_to_video_map =
               {EpMatch(video_ep_pattern, v).group1 : v \in MatchingVideos}
        /\ \A id \in DOMAIN ep_to_video_map :
               /\ ep_to_video_map[id] \in MatchingVideos
               /\ EpMatch(video_ep_pattern, ep_to_video_map[id]).group1 = id
               /\ \A v \in MatchingVideos :
                      EpMatch(video_ep_pattern, v).group1 = id =>
                          v = ep_to_video_map[id] \/ StrLess(v, ep_to_video_map[id])

\* The index is built from a directory where two videos yield one identifier
\* and a third file of the listing does not decide the entry.
C1_Witness ==
    /\ pc = "glob"
    /\ \E v, w \in MatchingVideos :
           /\ v # w
           /\ EpMatch(video_ep_pattern, v).group1 = EpMatch(video_ep_pattern, w).group1
           /\ StrLess(v, w)
           /\ ep_to_video_map[EpMatch(video_ep_pattern, v).group1] = w

\* A subtitle that rename mode joins to a video: its stem matches and the
\* captured identifier is a key of the video index.
SubJoined(sub_filepath) ==
    /\ EpMatch(sub_ep_pattern, sub_filepath).matched
    /\ EpMatch(sub_ep_pattern, sub_filepath).group1 \in DOMAIN ep_to_video_map

\* C3: a subtitle whose stem does not match, or whose identifier is not a
\* key of the video index, gets no rename operation; every operation planned
\* or applied is for a subtitle whose identifier is a key of the index.
C3_UnmatchedSubtitleSkipped ==
    /\ \A i \in 1..Len(proposed_changes) : SubJoined(proposed_changes[i][1])
    /\ \A i \in 1..Len(renamed) : SubJoined(renamed[i][1])
    /\ \A j \in 1..Len(sub_filepaths) :
           ~SubJoined(sub_filepaths[j]) =>
               \A i \in 1..Len(proposed_changes) :
                   proposed_changes[i][1] # sub_filepaths[j]

\* A plan is proposed for a listing that also holds a subtitle without video.
C3_Witness ==
    /\ pc = "prompt"
    /\ variant \in {"rename_subtitles", "renamer"}
    /\ proposed_changes # <<>>
    /\ \E j \in 1..Len(sub_filepaths) : ~SubJoined(sub_filepaths[j])

\* The name's last extension: from its last dot, unless that dot is the
\* first or the last character.
LastExtension(name) ==
    IF \E i \in 2..(Len(name) - 1) : name[i] = "."
    THEN LET i == CHOOSE i \in 2..(Len(name) - 1) :
                      /\ name[i] = "."
                      /\ \A j \in (i + 1)..Len(name) : name[j] # "."
         IN IF name[Len(name)] = "." THEN <<>> ELSE SubSeq(name, i, Len(name))
    ELSE <<>>

\* All trailing dotted suffixes of a name: from the first dot that follows
\* a character other than a dot.
CompoundExtension(name) ==
    LET inner == {i \in 2..Len(name) :
                     name[i] = "." /\ \E j \in 1..(i - 1) : name[j] # "."}
    IN IF inner = {} THEN <<>>
       ELSE SubSeq(name, SetMin(inner), Len(name))

WithoutLastExtension(name) ==
    SubSeq(name, 1, Len(name) - Len(LastExtension(name)))

\* C4: the destination of a matched subtitle is the video's stem followed by
\* "." + tag + the subtitle's last extension when the tag is not empty, and
\* by all the subtitle's trailing dotted suffixes when it is empty.
C4_DestinationName ==
    pc \in {"prompt", "rename"} /\ variant \in {"rename_subtitles", "renamer"} =>
        \A i \in 1..Len(proposed_changes) :
            LET sub == proposed_changes[i][1]
                tag == glob_to_subtitle_tag_map[gi][2]
                video == ep_to_video_map[EpMatch(sub_ep_pattern, sub).group1]
            IN proposed_changes[i][2] =
                   WithoutLastExtension(video) \o
                       (IF tag # <<>>
                        THEN <<".">> \o tag \o LastExtension(sub)
                        ELSE CompoundExtension(sub))

\* A subtitle with two suffixes is planned under the empty tag.
C4_Witness ==
    /\ pc = "prompt"
    /\ variant \in {"rename_subtitles", "renamer"}
    /\ glob_to_subtitle_tag_map[gi][2] = <<>>
    /\ \E i \in 1..Len(proposed_changes) :
           /\ Len(PathSuffixes(proposed_changes[i][1])) = 2
           /\ EndsWith(proposed_changes[i][2],
                       <<".", "e", "n", ".", "s", "r", "t">>)

\* The listed subtitle is named by a line printed so far: a line of a
\* proposal, or the renamer's no-match line for a glob that lists it.
Reported(sub_filepath) ==
    \E i \in 1..Len(printed) :
        \/ printed[i].line = "change" /\ printed[i].name = sub_filepath
        \/ printed[i].line = "no_match" /\ GlobMatch(printed[i].glob, sub_filepath)

\* C11: once a glob's proposal is printed, every subtitle of its listing
\* that got no rename operation has been reported: none is silently dropped,
\* also when other files of the glob are matched.
C11_UnmatchedSubtitleReported ==
    pc \in {"prompt", "rename"} /\ variant \in {"rename_subtitles", "renamer"} =>
        \A j \in 1..Len(sub_filepaths) :
            (\A i \in 1..Len(proposed_changes) :
                 proposed_changes[i][1] # sub_filepaths[j])
                => Reported(sub_filepaths[j])

\* A subtitle that the configured subtitle episode pattern joins to a video.
ConfigJoined(sub_filepath) ==
    /\ EpMatch(subtitle_ep_pattern, sub_filepath).matched
    /\ EpMatch(subtitle_ep_pattern, sub_filepath).group1 \in DOMAIN ep_to_video_map

\* C13: in a rename run the subtitles of a listing that get an operation
\* are exactly those whose identifier under the configured subtitle episode
\* pattern is a key of the video index, and each is named after the video of
\* that identifier.
C13_ConfiguredSubtitlePatternUsed ==
    variant \in {"rename_subtitles", "renamer"} =>
        /\ \A j \in 1..Len(sub_filepaths) :
               ConfigJoined(sub_filepaths[j]) <=>
                   \E i \in 1..Len(proposed_changes) :
                       proposed_changes[i][1] = sub_filepaths[j]
        /\ pc \in {"prompt", "rename"} =>
               \A i \in 1..Len(proposed_changes) :
                   LET sub == proposed_changes[i][1]
                       tag == glob_to_subtitle_tag_map[gi][2]
                       id == EpMatch(subtitle_ep_pattern, sub).group1
                   IN /\ ConfigJoined(sub)
                      /\ proposed_changes[i][2] =
                             WithoutLastExtension(ep_to_video_map[id]) \o
                                 (IF tag # <<>>
                                  THEN <<".">> \o tag \o LastExtension(sub)
                                  ELSE CompoundExtension(sub))

\* The answers that confirm a prompt: empty input, "y" or "Y".
Confirming == { <<>>, <<"y">>, <<"Y">> }

\* A step taken while the pair at position gi awaits its proposal: the
\* proposal is for files of that pair's glob only; without a match no
\* confirmation is asked, nothing is renamed and the next pair is due.
C14_ProposalStep ==
    pc = "glob" /\ gi <= Len(glob_to_subtitle_tag_map) =>
        /\ \A i \in 1..Len(proposed_changes') :
               GlobMatch(glob_to_subtitle_tag_map[gi][1], proposed_changes'[i][1])
        /\ renamed' = renamed /\ directory' = directory
        /\ user_input' = user_input
        /\ IF proposed_changes' = <<>>
           THEN pc' = "glob" /\ gi' = gi + 1
           ELSE pc' = "prompt" /\ gi' = gi

\* A step taken at a prompt: a confirming answer starts the renames of this
\* pair's batch, any other answer renames nothing and makes the next pair
\* due.
C14_AnswerStep ==
    pc = "prompt" =>
        /\ renamed' = renamed /\ directory' = directory
        /\ proposed_changes' = proposed_changes
        /\ IF user_input' \in Confirming
           THEN pc' = "rename" /\ gi' = gi
           ELSE pc' = "glob" /\ gi' = gi + 1

\* A rename is one of the batch of the pair at position gi, made after that
\* batch was confirmed.
C14_RenameStep ==
    renamed' # renamed =>
        /\ pc = "rename" /\ user_input \in Confirming
        /\ Len(renamed') = Len(renamed) + 1
        /\ SubSeq(renamed', 1, Len(renamed)) = renamed
        /\ \E i \in 1..Len(proposed_changes) :
               renamed'[Len(renamed')] = proposed_changes[i]
        /\ gi' \in {gi, gi + 1}

\* C14: the (glob, tag) pairs of a rename run are handled one after another
\* in configuration order, each with its own proposal and confirmation: a
\* pair without a matched subtitle asks no confirmation and renames nothing,
\* a declined batch renames none of its files, and in both cases the next
\* pair becomes the one to propose.
C14_PairsHandledInTurn ==
    [][C14_ProposalStep /\ C14_AnswerStep /\ C14_RenameStep]_vars

\* The first pair's batch was declined and left alone, and the second
\* pair's batch is proposed.
C14_Witness ==
    /\ pc = "prompt"
    /\ variant \in {"rename_subtitles", "renamer"}
    /\ gi = 2
    /\ user_input \notin Confirming /\ user_input # <<>>
    /\ renamed = <<>>
    /\ proposed_changes # <<>>

\* ------------------------------------------------------------------------
\* Properties of the extraction run.
\* ------------------------------------------------------------------------
\* The commands generated for the k-th origin video.
Segment(k) ==
    IF k \in 1..Len(origin_videos)
    THEN SelectSeq(collected, LAMBDA c : c.input = origin_videos[k])
    ELSE <<>>

\* The k-th video was planned without an exception.
PlannedOk(k) == k \in 1..Len(probed) /\ k < vi

StreamsOf(k) == probed[k].streams
LacksTag(stream) == ~({"language", "title"} \subseteq DOMAIN stream.tags)

\* The name an origin video is to be resolved to, as the claim states it.
ExpectedBaseName(origin_video) ==
    LET match == EpMatch(origin_video_ep_pattern, origin_video)
    IN IF /\ ~ep_to_target_video_map.is_none
          /\ match.matched
          /\ match.group1 \in DOMAIN ep_to_target_video_map.map
       THEN ep_to_target_video_map.map[match.group1]
       ELSE origin_video

\* C2: in extraction mode the resolution of an origin video's base name
\* never fails; it yields the target path when a target index is present,
\* the stem matches and the identifier is a key of the index, and the origin
\* path in every other case.
C2_ResolveBaseNameNeverFails ==
    IsExtraction =>
        /\ err # "KeyError_target"
        /\ \A i \in 1..Len(collected) :
               collected[i].base = ExpectedBaseName(collected[i].input)

\* C5: with a non-empty explicit track-to-tag map the tracks and tags of the
\* commands planned for every video are those of the map, in its order,
\* whatever tags the probed streams carry.
C5_ExplicitMapBypassesMetadata ==
    IsExtraction /\ Truthy(sub_stream_id_to_tag_map) =>
        \A k \in 1..Len(probed) :
            PlannedOk(k) =>
                LET seg == Segment(k)
                    items == sub_stream_id_to_tag_map.items
                IN /\ Len(seg) = Len(items)
                   /\ \A i \in 1..Len(seg) :
                          /\ seg[i].track = items[i][1].value
                          /\ seg[i].tag = items[i][2]
                          /\ seg[i].output =
                                 WithoutLastExtension(seg[i].base) \o <<".">>
                                 \o items[i][2] \o <<".">>
                                 \o SUB_CODEC_TO_SUFFIX_MAP[
                                        StreamsOf(k)[items[i][1].value + 1].codec_name]

\* The plan is complete under an explicit map for a video one of whose
\* streams has no title tag, and whose language tags are not the map's tags.
C5_Witness ==
    /\ pc = "prompt"
    /\ IsExtraction
    /\ Truthy(sub_stream_id_to_tag_map)
    /\ \E k \in 1..Len(probed) :
           /\ PlannedOk(k)
           /\ Len(Segment(k)) = 2
           /\ \E i \in 1..Len(StreamsOf(k)) : LacksTag(StreamsOf(k)[i])

\* C6: with the explicit map absent or empty, SubtitleExtractor plans for a
\* video one command per subtitle stream, stream number i (from 0, in the
\* metadata's order) under the tag "{language}-{title}".
C6_TagsDerivedPerStream ==
    IsSubtitleExtractor /\ ~Truthy(sub_stream_id_to_tag_map) =>
        \A k \in 1..Len(probed) :
            PlannedOk(k) =>
                LET seg == Segment(k)
                    streams == StreamsOf(k)
                IN /\ Len(seg) = Len(streams)
                   /\ \A i \in 1..Len(seg) :
                          /\ seg[i].track = i - 1
                          /\ seg[i].tag = streams[i].tags["language"] \o <<"-">>
                                          \o streams[i].tags["title"]

\* An empty explicit map, and a video with two streams planned from its
\* metadata.
C6_Witness ==
    /\ pc = "prompt"
    /\ variant = "SubtitleExtractor"
    /\ ~sub_stream_id_to_tag_map.is_none
    /\ sub_stream_id_to_tag_map.items = <<>>
    /\ \E k \in 1..Len(probed) : PlannedOk(k) /\ Len(Segment(k)) = 2

\* The tracks and tags of a list of commands, in order.
TracksAndTags(cmds) == [i \in 1..Len(cmds) |-> <<cmds[i].track, cmds[i].tag>>]

\* The tag map that a video's own metadata yields when every stream carries
\* language and title.
OwnTagMap(streams) ==
    [i \in 1..Len(streams) |->
        <<i - 1, streams[i].tags["language"] \o <<"-">> \o streams[i].tags["title"]>>]

\* C12: when no explicit map is given, the commands planned for each video
\* are those of the tag map derived from that video's own metadata, whatever
\* videos were planned before it: as many commands as the video has subtitle
\* streams, tagged from its own streams.
C12_TagMapDerivedPerVideo ==
    IsExtraction /\ sub_stream_id_to_tag_map.is_none =>
        \A k \in 1..Len(probed) :
            PlannedOk(k) =>
                /\ \A i \in 1..Len(StreamsOf(k)) : ~LacksTag(StreamsOf(k)[i])
                /\ TracksAndTags(Segment(k)) = OwnTagMap(StreamsOf(k))

\* The tracks selected for the k-th video: those of the tag map in use.
SelectedTracks(k) ==
    LET in_use == IF IsSubtitleExtractor
                  THEN sub_stream_id_to_tag_map
                  ELSE sub_lang_by_track_collection
    IN IF (IsSubtitleExtractor /\ Truthy(in_use))
          \/ (variant = "extract_subtitles" /\ ~in_use.is_none)
       THEN {in_use.items[i][1].value : i \in 1..Len(in_use.items)}
       ELSE 0..(Len(StreamsOf(k)) - 1)

SupportedCodec(stream) == stream.codec_name \in {"subrip", "ass"}

\* A stream selected for the k-th video has a codec outside {subrip, ass}.
UnsupportedSelected(k) ==
    \E t \in SelectedTracks(k) :
        /\ 0 <= t /\ t < Len(StreamsOf(k))
        /\ ~SupportedCodec(StreamsOf(k)[t + 1])

\* C7 as stated: a selected stream with an unsupported codec makes planning
\* fail before any operation for that video is planned, and none is executed.
C7_FailsBeforeAnyOperationPlanned ==
    IsExtraction =>
        \A k \in 1..Len(probed) :
            UnsupportedSelected(k) =>
                /\ pc = "error"
                /\ ran = <<>>
                /\ \A i \in 1..Len(pending_subtitle_extraction) :
                       pending_subtitle_extraction[i].input # origin_videos[k]

\* C7, amended: a selected stream with an unsupported codec makes the
\* planning of that video fail and ends the run before the prompt, so that
\* no command is ever executed; the commands generated for that video until
\* then are for tracks with a supported codec only.
C7_UnsupportedCodecAbortsRun ==
    IsExtraction =>
        /\ \A k \in 1..Len(probed) :
               UnsupportedSelected(k) =>
                   /\ pc = "error"
                   /\ err # "none"
                   /\ k = Len(probed)
                   /\ ran = <<>>
                   /\ \A i \in 1..Len(Segment(k)) :
                          SupportedCodec(StreamsOf(k)[Segment(k)[i].track + 1])
        /\ err = "KeyError_codec" =>
               /\ pc = "error"
               /\ ran = <<>>
               /\ UnsupportedSelected(Len(probed))

\* The codec lookup fails on the second track of a video, after the command
\* of its first track was generated.
C7_Witness ==
    /\ err = "KeyError_codec"
    /\ Len(Segment(Len(probed))) = 1
    /\ ran = <<>>

\* C8: when SubtitleExtractor derives the tags and a stream of a video lacks
\* the language or the title tag, tag resolution fails with the missing
\* metadata error, which ends the run: no command is executed.
C8_MissingTagAbortsRun ==
    IsSubtitleExtractor /\ ~Truthy(sub_stream_id_to_tag_map) =>
        \A k \in 1..Len(probed) :
            (\E i \in 1..Len(StreamsOf(k)) : LacksTag(StreamsOf(k)[i])) =>
                /\ pc = "error"
                /\ err = "KeyError_tags"
                /\ k = Len(probed)
                /\ Segment(k) = <<>>
                /\ ran = <<>>
                /\ pending_subtitle_extraction = <<>>

\* The second video lacks a tag, after commands were generated for the first.
C8_Witness ==
    /\ variant = "SubtitleExtractor"
    /\ err = "KeyError_tags"
    /\ Len(probed) = 2
    /\ collected # <<>>

\* The tracks the claim expects for the k-th video, in the tag map's order.
ExpectedTracks(k) ==
    IF Truthy(sub_stream_id_to_tag_map)
    THEN [i \in 1..Len(sub_stream_id_to_tag_map.items) |->
             sub_stream_id_to_tag_map.items[i][1].value]
    ELSE [i \in 1..Len(StreamsOf(k)) |-> i - 1]

\* Number of operations expected before those of the k-th video.
RECURSIVE ExpectedOffset(_)
ExpectedOffset(k) ==
    IF k <= 1 THEN 0 ELSE ExpectedOffset(k - 1) + Len(ExpectedTracks(k - 1))

\* extract_subtitles has planned every video.
PlanComplete ==
    \/ pc \in {"prompt", "run", "done"}
    \/ /\ pc \in {"font_prompt", "font_run", "fonts_done"}
       /\ \E i \in 1..Len(calls) : calls[i] = "extract_subtitles"

\* C9: SubtitleExtractor's plan holds exactly one operation per (video,
\* tag-map entry) pair, by video order first and by the tag map's order
\* within a video; none is merged or dropped.
C9_OneOperationPerVideoAndEntry ==
    IsSubtitleExtractor /\ PlanComplete =>
        /\ Len(probed) = Len(origin_videos)
        /\ Len(pending_subtitle_extraction) = ExpectedOffset(Len(origin_videos) + 1)
        /\ \A k \in 1..Len(origin_videos) :
               \A i \in 1..Len(ExpectedTracks(k)) :
                   LET op == pending_subtitle_extraction[ExpectedOffset(k) + i]
                   IN /\ op.input = origin_videos[k]
                      /\ op.track = ExpectedTracks(k)[i]

\* A complete plan over two videos that holds two operations with the same
\* destination path.
C9_Witness ==
    /\ variant = "SubtitleExtractor"
    /\ pc = "prompt"
    /\ Len(origin_videos) = 2
    /\ \E i, j \in 1..Len(pending_subtitle_extraction) :
           /\ i < j
           /\ pending_subtitle_extraction[i].output =
                  pending_subtitle_extraction[j].output

\* C10: once the user has confirmed, the planned operations are invoked one
\* at a time, in planned order, each exactly once, whatever the exit
\* statuses, until all of them have been invoked.
C10_AllOperationsInvokedInOrder ==
    /\ [][ran' # ran =>
            /\ pc = "run"
            /\ Len(ran) < Len(pending_subtitle_extraction)
            /\ ran' = Append(ran, pending_subtitle_extraction[Len(ran) + 1])
            /\ pending_subtitle_extraction' = pending_subtitle_extraction]_vars
    /\ (pc = "run") ~> (pc = "done" /\ ran = pending_subtitle_extraction)

\* An invocation has just failed while operations are left to run.
C10_Witness ==
    /\ pc = "run"
    /\ last_status = 1
    /\ Len(ran) >= 1
    /\ Len(ran) < Len(pending_subtitle_extraction)

\* ------------------------------------------------------------------------
\* Properties of both runs.
\* ------------------------------------------------------------------------
\* The files of the directory other than those the program makes for
\* itself (the configuration templates and the font folder).
UserFiles(files) ==
    files \ {RENAME_CONFIG_FILENAME, EXTRACTION_CONFIG_FILENAME, FontDirName}

\* A step that runs an extraction command, renames a subtitle or changes the
\* user's files.
C15_Effect ==
    ran' # ran \/ renamed' # renamed \/ UserFiles(directory') # UserFiles(directory)

\* C15: a command is run or a file renamed only after the whole batch was
\* planned and the prompt answered with empty input, "y" or "Y", and it is
\* the next operation of that batch; any other answer runs nothing, renames
\* nothing, leaves the files as they are, and ends the call (of
\* extract_subtitles, or of rename_subtitles for the batch of a glob).  The
\* font commands, which extract_fonts plans, are run on a confirming answer
\* to its own prompt only.
C15_NothingBeforeConfirmation ==
    [][ /\ C15_Effect =>
            /\ user_input \in Confirming
            /\ IF IsExtraction
               THEN /\ pc = "run"
                    /\ vi > Len(origin_videos)
                    /\ pending_subtitle_extraction = collected
                    /\ ran' = Append(ran, pending_subtitle_extraction[Len(ran) + 1])
                    /\ directory' = directory
               ELSE /\ pc = "rename"
                    /\ renamed' = Append(renamed, proposed_changes[ri])
                    /\ directory' =
                           (directory \ {proposed_changes[ri][1]})
                               \cup {proposed_changes[ri][2]}
        /\ pc = "prompt" /\ user_input' \notin Confirming =>
            /\ ~C15_Effect
            /\ directory' = directory /\ font_ran' = font_ran
            /\ ran = <<>>
            /\ pc' = IF IsExtraction THEN "done" ELSE "glob"
        /\ FontDirName \in directory' \ directory =>
            pc = "font_prompt" /\ user_input' \in Confirming
        /\ font_ran' # font_ran =>
            /\ pc = "font_run"
            /\ user_input \in Confirming
            /\ font_ran' = Append(font_ran,
                                  FontCmd(origin_videos[Len(font_ran) + 1],
                                          FontDirName))
        /\ pc = "font_prompt" /\ user_input' \notin Confirming =>
            /\ ~C15_Effect
            /\ directory' = directory /\ font_ran' = font_ran
            /\ font_ran = <<>>
            /\ pc' = "fonts_done"
      ]_vars

\* An extraction plan of at least one command was declined with "yes" and
\* the run is over with nothing run.
C15_Witness ==
    /\ IsExtraction
    /\ pc = "done"
    /\ user_input = <<"y", "e", "s">>
    /\ pending_subtitle_extraction # <<>>
    /\ ran = <<>>
====
